---- MODULE Spec2Model ----
(***************************************************************************)
(* The chat session engine of ollama-gui (src/src/services/chat.ts,        *)
(* useChats) as a state machine.                                           *)
(*                                                                         *)
(* Every engine operation is an async function.  A call runs synchronously *)
(* up to its first await; each later step of the same call runs from the   *)
(* resumption of one await to the next await (or to the return).  One      *)
(* action of the model is one such run-to-suspension block, so calls       *)
(* interleave exactly at the awaits of the source.  A Record Store request *)
(* (Dexie over IndexedDB) takes effect when it is issued: IndexedDB serves *)
(* the requests on a table in the order of their issue, so no other block  *)
(* can observe the store between the issue and its effect.                 *)
(*                                                                         *)
(* Text is a sequence of tokens, concatenation is \o.  The i-th chunk of   *)
(* the stream opened for assistant message s is the token <<s, i>>, so the *)
(* content of a message tells which chunks were appended to it, in which   *)
(* order and how often.                                                    *)
(***************************************************************************)
EXTENDS Integers, Sequences, FiniteSets, TLC

\* Bounds of the model.
MaxOps == 2
MaxChunks == 2
MaxInitChats == 2
MaxHistory == 2
MaxInitMessages == 2

VARIABLES
    dbChats, dbMessages, nextChatId, nextMessageId,
    chats, activeChat, activeInList, messages, systemPrompt, ongoingAiMessages,
    currentModel, historyMessageLength, systemMessage,
    now, tasks, started, nOps, lastDone,
    exportData, importJobs, importData, aborts

storeVars == <<dbChats, dbMessages, nextChatId, nextMessageId>>
configVars == <<historyMessageLength, systemMessage>>
portVars == <<exportData, importJobs, importData>>
vars == <<dbChats, dbMessages, nextChatId, nextMessageId,
          chats, activeChat, activeInList, messages, systemPrompt, ongoingAiMessages,
          currentModel, historyMessageLength, systemMessage,
          now, tasks, started, nOps, lastDone,
          exportData, importJobs, importData, aborts>>

\* one slot for initialize and one for every call the user may make
Tasks == 1..(MaxOps + 1)
Models == {"m1", "m2"}
Min(a, b) == IF a < b THEN a ELSE b
Max(a, b) == IF a > b THEN a ELSE b

\* ------------------------------------------------------------------ records
\* activeChat.value === null
NoChat == [id |-> 0, name |-> "", model |-> "", createdAt |-> 0]
\* systemPrompt.value === undefined, map.get() === undefined
NoMessage == [id |-> 0, chatId |-> 0, role |-> "", content |-> <<>>, createdAt |-> 0]
\* An element of messages.value: obj says that it is the very object a call
\* built and pushed (the one ongoingAiMessages may hold), not a copy read from
\* the store.
Entry(m, isObj) ==
    [id |-> m.id, chatId |-> m.chatId, role |-> m.role, content |-> m.content,
     createdAt |-> m.createdAt, obj |-> isObj]
Plain(e) ==
    [id |-> e.id, chatId |-> e.chatId, role |-> e.role, content |-> e.content,
     createdAt |-> e.createdAt]
UserText(j) == <<0, j>>
SystemText == <<0, 0>>
Chunk(s, i) == <<s, i>>
\* The local variables of one call, and where it is suspended.
\*   arg, content, model   parameters of the top-level call
\*   target                chatId parameter of switchChat
\*   chatId                currentChatId
\*   chat                  const chat / const newChat
\*   msg                   const message / const systemPromptMessage
\*   ai                    const aiMessage (the object the call built)
\*   snapChats, snapMessages  result of a pending getAllChats / getMessages
\*   bundles               exportData / the bundles whose messages are awaited
\*   history               chatHistory as passed to ollama.chat
\*   k                     parts this call's stream has delivered
\*   aborted               ollama.abort() hit this call's stream
\*   failed                a store or backend request of the call was rejected
\*   threw                 the call's promise was rejected
\*   callActive, added, deleted, shared, lost  history of the call, read only
\*                         by the properties
IdleTask ==
    [op |-> "", pc |-> "idle", arg |-> 0, content |-> <<>>, model |-> "",
     target |-> 0, chatId |-> 0, chat |-> NoChat, msg |-> NoMessage,
     ai |-> NoMessage, snapChats |-> <<>>, snapMessages |-> <<>>,
     bundles |-> <<>>, history |-> <<>>, k |-> 0, aborted |-> FALSE,
     callActive |-> 0, added |-> <<>>, deleted |-> <<>>, shared |-> FALSE,
     lost |-> FALSE, firstMessageId |-> 0, failed |-> FALSE, threw |-> FALSE]

\* ------------------------------------------------------------ pure helpers
RECURSIVE SetToSeq(_)
\* the elements of a set of numbers in increasing order (primary-key order)
SetToSeq(S) ==
    IF S = {} THEN <<>>
    ELSE LET m == CHOOSE x \in S : \A y \in S : x <= y
         IN <<m>> \o SetToSeq(S \ {m})

RECURSIVE InsertByDateAscending(_, _)
\* the comparator with its operands exchanged: a.createdAt - b.createdAt
InsertByDateAscending(s, c) ==
    IF s = <<>> THEN <<c>>
    ELSE IF c.createdAt - Head(s).createdAt < 0 THEN <<c>> \o s
    ELSE <<Head(s)>> \o InsertByDateAscending(Tail(s), c)

RECURSIVE InsertByDate(_, _)
\* c placed after every element that the comparator does not put behind it
InsertByDate(s, c) ==
    IF s = <<>> THEN <<c>>
    ELSE IF Head(s).createdAt - c.createdAt < 0 THEN <<c>> \o s
    ELSE <<Head(s)>> \o InsertByDate(Tail(s), c)

RECURSIVE SortByDate(_, _)
SortByDate(done, rest) ==
    IF rest = <<>> THEN done
    ELSE SortByDate(InsertByDate(done, Head(rest)), Tail(rest))

\* computed sortedChats: a stable sort of a copy, createdAt descending
SortedChats(list) == SortByDate(<<>>, list)

\* Array.prototype.slice(start)
JsSlice(s, start) ==
    LET len == Len(s)
        from == IF start < 0 THEN Max(len + start, 0) ELSE Min(start, len)
    IN SubSeq(s, from + 1, len)

\* historyMessageLength.value ?? 0
HistoryLength == IF historyMessageLength.set THEN historyMessageLength.n ELSE 0

\* messages.value.slice(-(historyMessageLength.value ?? 0)), then the unshift
ChatHistory(list) ==
    LET window == JsSlice(list, 0 - HistoryLength)
    IN IF systemPrompt # NoMessage THEN <<Entry(systemPrompt, TRUE)>> \o window
       ELSE window

\* --------------------------------------------------------- the Record Store
GetAllChats == [i \in 1..Cardinality(DOMAIN dbChats) |-> dbChats[SetToSeq(DOMAIN dbChats)[i]]]
\* a read that answers with the oldest stored chat, whatever the key
GetOldestChat(id) ==
    IF DOMAIN dbChats # {}
    THEN dbChats[CHOOSE c \in DOMAIN dbChats : \A d \in DOMAIN dbChats : c <= d]
    ELSE NoChat
GetChat(id) == IF id \in DOMAIN dbChats THEN dbChats[id] ELSE NoChat
MessageIdsOf(chatId) == {m \in DOMAIN dbMessages : dbMessages[m].chatId = chatId}
GetMessages(chatId) ==
    LET ids == SetToSeq(MessageIdsOf(chatId))
    IN [i \in 1..Len(ids) |-> Entry(dbMessages[ids[i]], FALSE)]
Without(f, S) == [x \in DOMAIN f \ S |-> f[x]]
\* an update that the store drops
UpdatedNothing(db, id, model) == db
\* db.chats.update / db.messages.update: no record with the key, no effect
UpdatedModel(db, id, model) ==
    IF id \in DOMAIN db THEN [db EXCEPT ![id].model = model] ELSE db
\* an update that stores the newest part only
UpdatedContentLastPart(db, id, content) ==
    IF id \in DOMAIN db THEN [db EXCEPT ![id].content = <<content[Len(content)]>>] ELSE db
\* an update that appends the new content to the stored one
UpdatedContentAppended(db, id, content) ==
    IF id \in DOMAIN db THEN [db EXCEPT ![id].content = @ \o content] ELSE db
\* an update made only for a message of the active chat
UpdatedContentIfActive(db, id, content) ==
    IF id \in DOMAIN db /\ db[id].chatId = activeChat.id
    THEN [db EXCEPT ![id].content = content] ELSE db
UpdatedContent(db, id, content) ==
    IF id \in DOMAIN db THEN [db EXCEPT ![id].content = content] ELSE db

\* ------------------------------------------------------------------- tasks
Idle(t) == tasks[t].pc = "idle"
Quiescent == \A t \in Tasks : Idle(t)
ChatIds == {chats[i].id : i \in 1..Len(chats)}
Running == {t \in Tasks : ~Idle(t)}
FreeSlot == CHOOSE t \in Tasks : Idle(t) /\ \A u \in Tasks : u < t => ~Idle(u)
\* an async call can be made: nOps counts them, MaxOps bounds them
CanCall == started /\ nOps < MaxOps /\ \E t \in Tasks : Idle(t)
\* initialize has returned
Ready == started /\ \A t \in Tasks : tasks[t].op # "initialize"
Called(op) ==
    [IdleTask EXCEPT !.op = op, !.callActive = activeChat.id]
\* the call is suspended at its next await
Goto(t, rec) ==
    /\ tasks' = [tasks EXCEPT ![t] = rec]
    /\ lastDone' = IdleTask
\* the call returns
Return(t, rec) ==
    /\ tasks' = [tasks EXCEPT ![t] = IdleTask]
    /\ lastDone' = [rec EXCEPT !.pc = "done"]

\* ------------------------------------------------- switchChat, switchModel
\* switchChat up to its await dbLayer.getChat
SwitchChatCall(t, rec, chatId) ==
    /\ Goto(t, [rec EXCEPT !.pc = "switchChat_getChat", !.target = chatId,
                           !.chat = GetChat(chatId)])
    /\ UNCHANGED <<storeVars, now>>

\* a call of switchChat by the user
SwitchChat(chatId) ==
    /\ CanCall
    /\ nOps' = nOps + 1
    /\ SwitchChatCall(FreeSlot, Called("switchChat"), chatId)
    /\ UNCHANGED <<chats, activeChat, activeInList, messages, systemPrompt,
                   ongoingAiMessages, currentModel, configVars, started,
                   portVars, aborts>>

\* getChat resolved: if (chat) setActiveChat(chat), up to await getMessages
SwitchChatGot(t) ==
    /\ tasks[t].pc = "switchChat_getChat"
    /\ IF tasks[t].chat # NoChat
       THEN /\ activeChat' = tasks[t].chat
            /\ activeInList' = FALSE
            /\ Goto(t, [tasks[t] EXCEPT !.pc = "switchChat_getMessages",
                                        !.chat = NoChat,
                                        !.snapMessages = GetMessages(tasks[t].target)])
       ELSE /\ Return(t, tasks[t])
            /\ UNCHANGED <<activeChat, activeInList>>
    /\ UNCHANGED <<storeVars, chats, messages, systemPrompt, ongoingAiMessages,
                   currentModel, configVars, now, started, nOps, portVars, aborts>>

\* switchModel up to its await dbLayer.updateChat (activeChat is not null)
SwitchModelCall(t, rec, model) ==
    /\ currentModel' = model
    /\ dbChats' = UpdatedModel(dbChats, activeChat.id, model)
    /\ Goto(t, [rec EXCEPT !.pc = "switchModel_updateChat", !.model = model,
                           !.snapMessages = <<>>])
    /\ UNCHANGED <<dbMessages, nextChatId, nextMessageId>>

\* a call of switchModel by the user: without an active chat it sets the
\* current model and returns
SwitchModel(model) ==
    /\ CanCall
    /\ nOps' = nOps + 1
    /\ IF activeChat = NoChat
       THEN /\ currentModel' = model
            /\ Return(FreeSlot, [Called("switchModel") EXCEPT !.model = model])
            /\ UNCHANGED storeVars
       ELSE SwitchModelCall(FreeSlot, Called("switchModel"), model)
    /\ UNCHANGED <<chats, activeChat, activeInList, messages, systemPrompt,
                   ongoingAiMessages, configVars, now, started, portVars, aborts>>

\* getMessages resolved: setMessages, then switchModel(activeChat.value.model)
SwitchChatLoaded(t) ==
    /\ tasks[t].pc = "switchChat_getMessages"
    /\ messages' = tasks[t].snapMessages
    /\ IF activeChat # NoChat
       THEN SwitchModelCall(t, tasks[t], activeChat.model)
       ELSE /\ Return(t, [tasks[t] EXCEPT !.snapMessages = <<>>])
            /\ UNCHANGED <<storeVars, currentModel>>
    /\ UNCHANGED <<chats, activeChat, activeInList, systemPrompt, ongoingAiMessages,
                   configVars, now, started, nOps, portVars, aborts>>

\* the chat list after activeChat.value.model = model: the list shares the
\* object only when startNewChat pushed it
ListWithModel(list, id, model) ==
    [i \in 1..Len(list) |->
        IF list[i].id = id THEN [list[i] EXCEPT !.model = model] ELSE list[i]]

\* updateChat resolved: activeChat.value.model = model (a TypeError on null is
\* caught by switchModel)
SwitchModelSaved(t) ==
    /\ tasks[t].pc = "switchModel_updateChat"
    /\ IF activeChat # NoChat
       THEN /\ activeChat' = [activeChat EXCEPT !.model = tasks[t].model]
            /\ chats' = IF activeInList
                        THEN ListWithModel(chats, activeChat.id, tasks[t].model)
                        ELSE chats
       ELSE UNCHANGED <<activeChat, chats>>
    /\ Return(t, tasks[t])
    /\ UNCHANGED <<storeVars, activeInList, messages, systemPrompt, ongoingAiMessages,
                   currentModel, configVars, now, started, nOps, portVars, aborts>>

\* --------------------------------------------------------------- renameChat
\* db.chats.update(id, { name })
UpdatedName(db, id, name) ==
    IF id \in DOMAIN db THEN [db EXCEPT ![id].name = name] ELSE db

\* the chat list after activeChat.value.name = newName: the list shares the
\* object only when startNewChat pushed it
ListWithName(list, id, name) ==
    [i \in 1..Len(list) |->
        IF list[i].id = id THEN [list[i] EXCEPT !.name = name] ELSE list[i]]

\* renameChat up to its await dbLayer.updateChat: the name is set in memory
\* first; the store serves the update or rejects it
RenameChat(newName) ==
    /\ CanCall
    /\ nOps' = nOps + 1
    /\ IF activeChat = NoChat
       THEN /\ Return(FreeSlot, Called("renameChat"))
            /\ UNCHANGED <<dbChats, activeChat, chats>>
       ELSE /\ activeChat' = [activeChat EXCEPT !.name = newName]
            /\ chats' = IF activeInList THEN ListWithName(chats, activeChat.id, newName)
                        ELSE chats
            /\ \E ok \in BOOLEAN :
                  /\ dbChats' = IF ok THEN UpdatedName(dbChats, activeChat.id, newName)
                                ELSE dbChats
                  /\ Goto(FreeSlot, [Called("renameChat") EXCEPT
                                        !.pc = "renameChat_updateChat",
                                        !.chat = activeChat',
                                        !.failed = ~ok])
    /\ UNCHANGED <<dbMessages, nextChatId, nextMessageId, activeInList, messages,
                   systemPrompt, ongoingAiMessages, currentModel, configVars, now,
                   started, portVars, aborts>>

\* updateChat settled: rejected, the rejection leaves renameChat (it holds no
\* try); resolved, up to await dbLayer.getAllChats, served or rejected
RenameChatSaved(t) ==
    /\ tasks[t].pc = "renameChat_updateChat"
    /\ IF tasks[t].failed
       THEN Return(t, [tasks[t] EXCEPT !.threw = TRUE])
       ELSE \E ok \in BOOLEAN :
               Goto(t, [tasks[t] EXCEPT !.pc = "renameChat_getAllChats",
                                        !.snapChats = IF ok THEN GetAllChats ELSE <<>>,
                                        !.failed = ~ok])
    /\ UNCHANGED <<storeVars, chats, activeChat, activeInList, messages, systemPrompt,
                   ongoingAiMessages, currentModel, configVars, now, started, nOps,
                   portVars, aborts>>

\* getAllChats settled: rejected, the rejection leaves renameChat; resolved,
\* chats.value = result (objects read from the store)
RenameChatLoaded(t) ==
    /\ tasks[t].pc = "renameChat_getAllChats"
    /\ IF tasks[t].failed
       THEN /\ Return(t, [tasks[t] EXCEPT !.threw = TRUE])
            /\ UNCHANGED <<chats, activeInList>>
       ELSE /\ chats' = tasks[t].snapChats
            /\ activeInList' = FALSE
            /\ Return(t, [tasks[t] EXCEPT !.snapChats = <<>>])
    /\ UNCHANGED <<storeVars, activeChat, messages, systemPrompt, ongoingAiMessages,
                   currentModel, configVars, now, started, nOps, portVars, aborts>>

\* ------------------------------------------- startNewChat, addSystemMessage
\* startNewChat up to its await dbLayer.addChat; new Date() is later than the
\* time of every chat made before
StartNewChatCall(t, rec, name) ==
    LET newChat == [id |-> nextChatId, name |-> name, model |-> currentModel,
                    createdAt |-> now + 1]
    IN /\ now' = now + 1
       /\ dbChats' = dbChats @@ (nextChatId :> newChat)
       /\ nextChatId' = nextChatId + 1
       /\ Goto(t, [rec EXCEPT !.pc = "startNewChat_addChat", !.chat = newChat])
       /\ UNCHANGED <<dbMessages, nextMessageId>>

StartNewChat ==
    /\ CanCall
    /\ nOps' = nOps + 1
    /\ StartNewChatCall(FreeSlot, Called("startNewChat"), "New chat")
    /\ UNCHANGED <<chats, activeChat, activeInList, messages, systemPrompt,
                   ongoingAiMessages, currentModel, configVars, started,
                   portVars, aborts>>

\* addChat resolved: push, setActiveChat, setMessages([]), up to
\* await useConfig().getCurrentSystemMessage()
StartNewChatAdded(t) ==
    /\ tasks[t].pc = "startNewChat_addChat"
    /\ chats' = Append(chats, tasks[t].chat)
    /\ activeChat' = tasks[t].chat
    /\ activeInList' = TRUE
    /\ messages' = <<>>
    /\ Goto(t, [tasks[t] EXCEPT !.pc = "startNewChat_getSystemMessage",
                                !.chat = NoChat])
    /\ UNCHANGED <<storeVars, systemPrompt, ongoingAiMessages, currentModel,
                   configVars, now, started, nOps, portVars, aborts>>

\* the configuration's system prompt for the current model, <<>> when none
GetCurrentSystemMessage == systemMessage

\* the message addSystemMessage builds
SystemPromptMessage(content) ==
    [id |-> nextMessageId, chatId |-> activeChat.id, role |-> "system",
     content |-> content, createdAt |-> now]

\* getCurrentSystemMessage resolved: addSystemMessage(content) up to its
\* await dbLayer.addMessage, or through its early returns
StartNewChatPrompt(t) ==
    /\ tasks[t].pc = "startNewChat_getSystemMessage"
    /\ LET content == GetCurrentSystemMessage
       IN IF activeChat = NoChat \/ content = <<>>
          THEN /\ Return(t, tasks[t])
               /\ UNCHANGED storeVars
          ELSE LET m == SystemPromptMessage(content)
               IN /\ dbMessages' = dbMessages @@ (m.id :> m)
                  /\ nextMessageId' = nextMessageId + 1
                  /\ Goto(t, [tasks[t] EXCEPT !.pc = "addSystemMessage_addMessage",
                                              !.msg = m,
                                              !.added = Append(@, m)])
                  /\ UNCHANGED <<dbChats, nextChatId>>
    /\ UNCHANGED <<chats, activeChat, activeInList, messages, systemPrompt,
                   ongoingAiMessages, currentModel, configVars, now, started, nOps,
                   portVars, aborts>>

\* addMessage resolved: messages.value.push, systemPrompt.value = message
AddSystemMessageAdded(t) ==
    /\ tasks[t].pc = "addSystemMessage_addMessage"
    /\ messages' = Append(messages, Entry(tasks[t].msg, TRUE))
    /\ systemPrompt' = tasks[t].msg
    /\ Return(t, tasks[t])
    /\ UNCHANGED <<storeVars, chats, activeChat, activeInList, ongoingAiMessages,
                   currentModel, configVars, now, started, nOps, portVars, aborts>>

\* --------------------------------------------------------------- initialize
\* initialize up to its await dbLayer.getAllChats; the application calls it
\* once, when it is mounted
Initialize ==
    /\ ~started
    /\ started' = TRUE
    /\ Goto(FreeSlot, [Called("initialize") EXCEPT !.pc = "initialize_getAllChats",
                                                  !.snapChats = GetAllChats])
    /\ UNCHANGED <<storeVars, chats, activeChat, activeInList, messages, systemPrompt,
                   ongoingAiMessages, currentModel, configVars, now, nOps,
                   portVars, aborts>>

\* getAllChats resolved: chats.value = result, then switchChat or startNewChat
InitializeLoaded(t) ==
    /\ tasks[t].pc = "initialize_getAllChats"
    /\ chats' = tasks[t].snapChats
    /\ IF Len(chats') > 0
       THEN SwitchChatCall(t, tasks[t], SortedChats(chats')[1].id)
       ELSE StartNewChatCall(t, tasks[t], "New chat")
    /\ UNCHANGED <<activeChat, activeInList, messages, systemPrompt,
                   ongoingAiMessages, currentModel, configVars, started, nOps,
                   portVars, aborts>>

\* --------------------------------------------------------------- deleteChat
\* deleteChat up to its await dbLayer.deleteChat
DeleteChat(chatId) ==
    /\ CanCall
    /\ nOps' = nOps + 1
    /\ dbChats' = Without(dbChats, {chatId})
    /\ Goto(FreeSlot, [Called("deleteChat") EXCEPT !.pc = "deleteChat_deleteChat",
                                                  !.arg = chatId])
    /\ UNCHANGED <<dbMessages, nextChatId, nextMessageId, chats, activeChat,
                   activeInList, messages, systemPrompt, ongoingAiMessages,
                   currentModel, configVars, now, started, portVars, aborts>>

\* deleteChat resolved, up to await dbLayer.deleteMessagesOfChat
DeleteChatDeleted(t) ==
    /\ tasks[t].pc = "deleteChat_deleteChat"
    /\ dbMessages' = Without(dbMessages, MessageIdsOf(tasks[t].arg))
    /\ Goto(t, [tasks[t] EXCEPT !.pc = "deleteChat_deleteMessages"])
    /\ UNCHANGED <<dbChats, nextChatId, nextMessageId, chats, activeChat,
                   activeInList, messages, systemPrompt, ongoingAiMessages,
                   currentModel, configVars, now, started, nOps, portVars, aborts>>

\* a filter that keeps every chat
KeepChats(list, chatId) == list

\* chats.value.filter((chat) => chat.id !== chatId)
FilterChats(list, chatId) == SelectSeq(list, LAMBDA c : c.id # chatId)

\* deleteMessagesOfChat resolved: filter the list; when the chat was active,
\* switchChat to the first of sortedChats or startNewChat
DeleteChatCleared(t) ==
    /\ tasks[t].pc = "deleteChat_deleteMessages"
    /\ chats' = FilterChats(chats, tasks[t].arg)
    /\ IF activeChat.id = tasks[t].arg /\ activeChat # NoChat
       THEN IF Len(chats') > 0
            THEN SwitchChatCall(t, tasks[t], SortedChats(chats')[1].id)
            ELSE StartNewChatCall(t, tasks[t], "New chat")
       ELSE /\ Return(t, tasks[t])
            /\ UNCHANGED <<storeVars, now>>
    /\ UNCHANGED <<activeChat, activeInList, messages, systemPrompt,
                   ongoingAiMessages, currentModel, configVars, started, nOps,
                   portVars, aborts>>

\* ------------------------------------------- addUserMessage, the stream loop
\* the message addUserMessage builds from its argument
UserMessage(content) ==
    [id |-> nextMessageId, chatId |-> activeChat.id, role |-> "user",
     content |-> content, createdAt |-> now]

\* the assistant message filed under the chat that is active when it is built
AiMessageOfActiveChat(chatId) ==
    [id |-> nextMessageId, chatId |-> activeChat.id, role |-> "assistant",
     content |-> <<>>, createdAt |-> now]

\* the empty assistant message of addUserMessage and regenerateResponse
AiMessage(chatId) ==
    [id |-> nextMessageId, chatId |-> chatId, role |-> "assistant",
     content |-> <<>>, createdAt |-> now]

\* addUserMessage up to its await dbLayer.addMessage(message); without an
\* active chat it warns and returns
AddUserMessage(content) ==
    /\ CanCall
    /\ nOps' = nOps + 1
    /\ IF activeChat = NoChat
       THEN /\ Return(FreeSlot, [Called("addUserMessage") EXCEPT !.content = content])
            /\ UNCHANGED storeVars
       ELSE LET m == UserMessage(content)
            IN /\ dbMessages' = dbMessages @@ (m.id :> m)
               /\ nextMessageId' = nextMessageId + 1
               /\ Goto(FreeSlot, [Called("addUserMessage") EXCEPT
                                     !.pc = "addUserMessage_addMessage",
                                     !.content = content,
                                     !.chatId = activeChat.id,
                                     !.msg = m,
                                     !.added = <<m>>])
               /\ UNCHANGED <<dbChats, nextChatId>>
    /\ UNCHANGED <<chats, activeChat, activeInList, messages, systemPrompt,
                   ongoingAiMessages, currentModel, configVars, now, started,
                   portVars, aborts>>

\* addMessage(message) resolved: push it, build aiMessage, up to
\* await dbLayer.addMessage(aiMessage)
AddUserMessageSaved(t) ==
    /\ tasks[t].pc = "addUserMessage_addMessage"
    /\ messages' = Append(messages, Entry(tasks[t].msg, TRUE))
    /\ LET a == AiMessage(tasks[t].chatId)
       IN /\ dbMessages' = dbMessages @@ (a.id :> a)
          /\ nextMessageId' = nextMessageId + 1
          /\ Goto(t, [tasks[t] EXCEPT !.pc = "aiMessage_addMessage",
                                      !.msg = NoMessage,
                                      !.ai = a,
                                      !.added = Append(@, a)])
    /\ UNCHANGED <<dbChats, nextChatId, chats, activeChat, activeInList, systemPrompt,
                   ongoingAiMessages, currentModel, configVars, now, started, nOps,
                   portVars, aborts>>

\* the calls whose stream is open (ollama.chat was called, the loop has not ended)
StreamPcs == {"stream", "stream_updateMessage", "stream_getMessages"}
Streaming(t) == tasks[t].pc \in StreamPcs

\* ongoingAiMessages.value.set(chatId, message)
MapSet(map, chatId, message) ==
    [c \in DOMAIN map \cup {chatId} |-> IF c = chatId THEN message ELSE map[c]]

\* addMessage(aiMessage) resolved (addUserMessage and regenerateResponse hold
\* the same code): register the message, push it, build chatHistory, up to
\* the first read of the stream ollama.chat opens
AssistantSaved(t) ==
    /\ tasks[t].pc = "aiMessage_addMessage"
    /\ ongoingAiMessages' = MapSet(ongoingAiMessages, tasks[t].chatId, tasks[t].ai)
    /\ messages' = Append(messages, Entry(tasks[t].ai, TRUE))
    /\ tasks' = [u \in Tasks |->
          IF u = t
          THEN [tasks[t] EXCEPT !.pc = "stream",
                                !.history = ChatHistory(messages'),
                                !.shared = \E v \in Tasks \ {t} :
                                              Streaming(v) /\ tasks[v].chatId = tasks[t].chatId]
          ELSE IF Streaming(u) /\ tasks[u].chatId = tasks[t].chatId
          THEN [tasks[u] EXCEPT !.shared = TRUE]
          ELSE tasks[u]]
    /\ lastDone' = IdleTask
    /\ UNCHANGED <<storeVars, chats, activeChat, activeInList, systemPrompt,
                   currentModel, configVars, now, started, nOps, portVars, aborts>>

\* aiMessage.content += part.message.content, seen through every reference
\* to the object: the map and the elements of messages.value that are it
Appended(list, id, text) ==
    [i \in 1..Len(list) |->
        IF list[i].id = id /\ list[i].obj
        THEN [list[i] EXCEPT !.content = @ \o text] ELSE list[i]]

\* the stream yields a part: look the chat's message up in the map, append
\* the text, up to await dbLayer.updateMessage; no message, next read
StreamChunk(t) ==
    /\ tasks[t].pc = "stream"
    /\ ~tasks[t].aborted
    /\ tasks[t].k < MaxChunks
    /\ LET c == tasks[t].chatId
           text == <<Chunk(tasks[t].ai.id, tasks[t].k + 1)>>
       IN IF c \in DOMAIN ongoingAiMessages
          THEN LET a == ongoingAiMessages[c]
               IN /\ ongoingAiMessages' = [ongoingAiMessages EXCEPT ![c].content = @ \o text]
                  /\ messages' = Appended(messages, a.id, text)
                  /\ dbMessages' = UpdatedContent(dbMessages, a.id, a.content \o text)
                  /\ Goto(t, [tasks[t] EXCEPT !.pc = "stream_updateMessage",
                                              !.k = @ + 1, !.history = <<>>])
          ELSE /\ Goto(t, [tasks[t] EXCEPT !.k = @ + 1, !.history = <<>>,
                                           !.lost = TRUE])
               /\ UNCHANGED <<ongoingAiMessages, messages, dbMessages>>
    /\ UNCHANGED <<dbChats, nextChatId, nextMessageId, chats, activeChat, activeInList,
                   systemPrompt, currentModel, configVars, now, started, nOps,
                   portVars, aborts>>

\* updateMessage resolved: when the chat is still the active one, up to
\* await dbLayer.getMessages; otherwise the next read
StreamPersisted(t) ==
    /\ tasks[t].pc = "stream_updateMessage"
    /\ IF tasks[t].chatId = activeChat.id
       THEN Goto(t, [tasks[t] EXCEPT !.pc = "stream_getMessages",
                                     !.snapMessages = GetMessages(tasks[t].chatId)])
       ELSE Goto(t, [tasks[t] EXCEPT !.pc = "stream"])
    /\ UNCHANGED <<storeVars, chats, activeChat, activeInList, messages, systemPrompt,
                   ongoingAiMessages, currentModel, configVars, now, started, nOps,
                   portVars, aborts>>

\* getMessages resolved: setMessages(result), then the next read
StreamRefreshed(t) ==
    /\ tasks[t].pc = "stream_getMessages"
    /\ messages' = tasks[t].snapMessages
    /\ Goto(t, [tasks[t] EXCEPT !.pc = "stream", !.snapMessages = <<>>])
    /\ UNCHANGED <<storeVars, chats, activeChat, activeInList, systemPrompt,
                   ongoingAiMessages, currentModel, configVars, now, started, nOps,
                   portVars, aborts>>

\* ongoingAiMessages.value.delete(currentChatId)
MapDelete(map, chatId) == Without(map, {chatId})

\* the stream is exhausted: the loop ends, the chat's entry is deleted
StreamEnd(t) ==
    /\ tasks[t].pc = "stream"
    /\ ~tasks[t].aborted
    /\ ongoingAiMessages' = MapDelete(ongoingAiMessages, tasks[t].chatId)
    /\ Return(t, [tasks[t] EXCEPT !.history = <<>>])
    /\ UNCHANGED <<storeVars, chats, activeChat, activeInList, messages, systemPrompt,
                   currentModel, configVars, now, started, nOps, portVars, aborts>>

\* the read of an aborted stream throws AbortError: the catch deletes the
\* chat's entry and returns
StreamAborted(t) ==
    /\ tasks[t].pc = "stream"
    /\ tasks[t].aborted
    /\ ongoingAiMessages' = MapDelete(ongoingAiMessages, tasks[t].chatId)
    /\ Return(t, [tasks[t] EXCEPT !.history = <<>>])
    /\ UNCHANGED <<storeVars, chats, activeChat, activeInList, messages, systemPrompt,
                   currentModel, configVars, now, started, nOps, portVars, aborts>>

\* ollama.chat or the read of its stream throws an error that is not an
\* AbortError: the catch logs it, the call returns
StreamFailed(t) ==
    /\ tasks[t].pc = "stream"
    /\ ~tasks[t].aborted
    /\ Return(t, [tasks[t] EXCEPT !.history = <<>>, !.failed = TRUE])
    /\ UNCHANGED <<storeVars, chats, activeChat, activeInList, messages, systemPrompt,
                   ongoingAiMessages, currentModel, configVars, now, started, nOps,
                   portVars, aborts>>

\* ------------------------------------------------------- regenerateResponse
\* the last element of messages.value, NoMessage for an empty list
LastMessage == IF Len(messages) > 0 THEN Plain(messages[Len(messages)]) ELSE NoMessage

\* a test that never lets regenerateResponse delete
DropsNothing == FALSE

\* whether regenerateResponse deletes the last message
DropsLast == LastMessage # NoMessage /\ LastMessage.role = "assistant"

\* regenerateResponse up to its await dbLayer.addMessage(aiMessage): the
\* delete of the last assistant message is issued and not awaited
RegenerateResponse ==
    /\ CanCall
    /\ nOps' = nOps + 1
    /\ IF activeChat = NoChat
       THEN /\ Return(FreeSlot, Called("regenerateResponse"))
            /\ UNCHANGED <<storeVars, messages>>
       ELSE LET a == AiMessage(activeChat.id)
                kept == IF DropsLast THEN Without(dbMessages, {LastMessage.id})
                        ELSE dbMessages
            IN /\ messages' = IF DropsLast THEN SubSeq(messages, 1, Len(messages) - 1)
                              ELSE messages
               /\ dbMessages' = kept @@ (a.id :> a)
               /\ nextMessageId' = nextMessageId + 1
               /\ Goto(FreeSlot, [Called("regenerateResponse") EXCEPT
                                     !.pc = "aiMessage_addMessage",
                                     !.chatId = activeChat.id,
                                     !.msg = LastMessage,
                                     !.ai = a,
                                     !.added = <<a>>,
                                     !.deleted = IF DropsLast THEN <<LastMessage.id>>
                                                 ELSE <<>>])
               /\ UNCHANGED <<dbChats, nextChatId>>
    /\ UNCHANGED <<chats, activeChat, activeInList, systemPrompt, ongoingAiMessages,
                   currentModel, configVars, now, started, portVars, aborts>>

\* -------------------------------------------------------------------- abort
\* ollama.abort(): every open stream throws AbortError at its next read
AbortedStreams ==
    [u \in Tasks |-> IF Streaming(u) THEN [tasks[u] EXCEPT !.aborted = TRUE]
                     ELSE tasks[u]]

\* the registered messages
InFlightIds == {ongoingAiMessages[c].id : c \in DOMAIN ongoingAiMessages}
InFlight(m) ==
    ongoingAiMessages[CHOOSE c \in DOMAIN ongoingAiMessages : ongoingAiMessages[c].id = m]

\* the call whose stream was opened for message m
Owner(m) == CHOOSE t \in Tasks : Streaming(t) /\ tasks[t].ai.id = m

\* abort (synchronous, it takes no slot and is not counted in nOps): clear
\* the map, abort the client's streams.  aborts keeps, for the
\* properties, the content each registered message had when abort() ran and
\* the number of parts its stream had delivered.
Abort ==
    /\ started
    /\ ongoingAiMessages' = <<>>
    /\ tasks' = AbortedStreams
    /\ lastDone' = [Called("abort") EXCEPT !.pc = "done"]
    /\ aborts' = [m \in DOMAIN aborts \cup InFlightIds |->
                    IF m \in InFlightIds
                    THEN [content |-> InFlight(m).content, k |-> tasks[Owner(m)].k]
                    ELSE aborts[m]]
    /\ UNCHANGED <<storeVars, chats, activeChat, activeInList, messages, systemPrompt,
                   currentModel, configVars, now, started, nOps, portVars>>

\* ------------------------------------------------------------- wipeDatabase
\* wipeDatabase up to its await dbLayer.clearChats
WipeDatabase ==
    /\ CanCall
    /\ nOps' = nOps + 1
    /\ dbChats' = <<>>
    /\ Goto(FreeSlot, [Called("wipeDatabase") EXCEPT !.pc = "wipeDatabase_clearChats",
                                                    !.firstMessageId = nextMessageId,
                                                    !.target = nextChatId])
    /\ UNCHANGED <<dbMessages, nextChatId, nextMessageId, chats, activeChat,
                   activeInList, messages, systemPrompt, ongoingAiMessages,
                   currentModel, configVars, now, started, portVars, aborts>>

\* clearChats resolved, up to await dbLayer.clearMessages
WipeChatsCleared(t) ==
    /\ tasks[t].pc = "wipeDatabase_clearChats"
    /\ dbMessages' = <<>>
    /\ Goto(t, [tasks[t] EXCEPT !.pc = "wipeDatabase_clearMessages"])
    /\ UNCHANGED <<dbChats, nextChatId, nextMessageId, chats, activeChat,
                   activeInList, messages, systemPrompt, ongoingAiMessages,
                   currentModel, configVars, now, started, nOps, portVars, aborts>>

\* clearMessages resolved: reset the local state, then startNewChat
WipeMessagesCleared(t) ==
    /\ tasks[t].pc = "wipeDatabase_clearMessages"
    /\ chats' = <<>>
    /\ activeChat' = NoChat
    /\ messages' = <<>>
    /\ ongoingAiMessages' = <<>>
    /\ StartNewChatCall(t, tasks[t], "New chat")
    /\ UNCHANGED <<activeInList, systemPrompt, currentModel, configVars, started, nOps,
                   portVars, aborts>>

\* ------------------------------------------------- exportChats, importChats
\* exportChats up to its await dbLayer.getAllChats
ExportChats ==
    /\ CanCall
    /\ nOps' = nOps + 1
    /\ Goto(FreeSlot, [Called("exportChats") EXCEPT !.pc = "exportChats_getAllChats",
                                                   !.snapChats = GetAllChats])
    /\ UNCHANGED <<storeVars, chats, activeChat, activeInList, messages, systemPrompt,
                   ongoingAiMessages, currentModel, configVars, now, started,
                   portVars, aborts>>

\* Object.assign({ messages }, chat)
Bundle(chat, list) ==
    [id |-> chat.id, name |-> chat.name, model |-> chat.model,
     createdAt |-> chat.createdAt,
     messages |-> [i \in 1..Len(list) |-> Plain(list[i])]]

\* getAllChats resolved: chats.map issues getMessages for every chat (a chat
\* without an id is skipped), up to await Promise.all
ExportLoaded(t) ==
    /\ tasks[t].pc = "exportChats_getAllChats"
    /\ LET found == SelectSeq(tasks[t].snapChats, LAMBDA c : c.id # 0)
       IN Goto(t, [tasks[t] EXCEPT
                     !.pc = "exportChats_getMessages",
                     !.snapChats = <<>>,
                     !.bundles = [i \in 1..Len(found) |->
                                     Bundle(found[i], GetMessages(found[i].id))]])
    /\ UNCHANGED <<storeVars, chats, activeChat, activeInList, messages, systemPrompt,
                   ongoingAiMessages, currentModel, configVars, now, started, nOps,
                   portVars, aborts>>

\* every getMessages resolved, in the order of issue: each callback pushes its
\* bundle, exportChats returns exportData
ExportDone(t) ==
    /\ tasks[t].pc = "exportChats_getMessages"
    /\ exportData' = tasks[t].bundles
    /\ Return(t, tasks[t])
    /\ UNCHANGED <<storeVars, chats, activeChat, activeInList, messages, systemPrompt,
                   ongoingAiMessages, currentModel, configVars, now, started, nOps,
                   importJobs, importData, aborts>>

\* new Date(chatData?.createdAt || chatData.messages[0].createdAt); 0 is an
\* absent createdAt
ImportedDate(chatData) ==
    IF chatData.createdAt # 0 THEN chatData.createdAt
    ELSE chatData.messages[1].createdAt

\* the chat importChats builds from a bundle, with the id addChat gives it
ImportedChat(chatData, id) ==
    [id |-> id, name |-> chatData.name, model |-> chatData.model,
     createdAt |-> ImportedDate(chatData)]

\* importChats: forEach starts one async callback per bundle, each runs up to
\* its await dbLayer.addChat; nothing is awaited, importChats returns
ImportChats(jsonData) ==
    /\ CanCall
    /\ nOps' = nOps + 1
    /\ importData' = jsonData
    /\ importJobs' = importJobs \o
          [i \in 1..Len(jsonData) |->
              [chat |-> ImportedChat(jsonData[i], nextChatId + i - 1),
               messages |-> jsonData[i].messages]]
    /\ dbChats' = dbChats @@
          [c \in nextChatId..(nextChatId + Len(jsonData) - 1) |->
              ImportedChat(jsonData[c - nextChatId + 1], c)]
    /\ nextChatId' = nextChatId + Len(jsonData)
    /\ tasks' = tasks
    /\ lastDone' = [Called("importChats") EXCEPT !.pc = "done"]
    /\ UNCHANGED <<dbMessages, nextMessageId, chats, activeChat, activeInList,
                   messages, systemPrompt, ongoingAiMessages, currentModel,
                   configVars, now, started, exportData, aborts>>

\* the messages one callback adds for its chat, with the ids addMessage gives
ImportedMessages(job) ==
    [m \in nextMessageId..(nextMessageId + Len(job.messages) - 1) |->
        LET d == job.messages[m - nextMessageId + 1]
        IN [id |-> m, chatId |-> job.chat.id, role |-> d.role,
            content |-> d.content, createdAt |-> d.createdAt]]

\* addChat of the oldest pending callback resolved: chats.value.push(chat),
\* then the inner forEach issues addMessage for every message of the bundle
ImportChatAdded ==
    /\ importJobs # <<>>
    /\ chats' = Append(chats, Head(importJobs).chat)
    /\ dbMessages' = dbMessages @@ ImportedMessages(Head(importJobs))
    /\ nextMessageId' = nextMessageId + Len(Head(importJobs).messages)
    /\ importJobs' = Tail(importJobs)
    /\ tasks' = tasks
    /\ lastDone' = IdleTask
    /\ UNCHANGED <<dbChats, nextChatId, activeChat, activeInList, messages,
                   systemPrompt, ongoingAiMessages, currentModel, configVars, now,
                   started, nOps, exportData, importData, aborts>>

\* the exported data is taken to an instance with an empty store, whose
\* module state is as constructed; importChats is called on it directly
OpenEmptyStore ==
    /\ exportData # <<>>
    /\ Quiescent
    /\ importData = <<>>
    /\ dbChats # <<>>
    /\ dbChats' = <<>>
    /\ dbMessages' = <<>>
    /\ chats' = <<>>
    /\ activeChat' = NoChat
    /\ activeInList' = FALSE
    /\ messages' = <<>>
    /\ systemPrompt' = NoMessage
    /\ ongoingAiMessages' = <<>>
    /\ tasks' = tasks
    /\ lastDone' = IdleTask
    /\ UNCHANGED <<nextChatId, nextMessageId, currentModel, configVars, now, started,
                   nOps, portVars, aborts>>

\* ------------------------------------------------------------ initial states
\* What construction leaves in memory (the refs of chat.ts:13-18) over a store
\* and a configuration left by earlier sessions.
ModelOf(i) == IF i % 2 = 1 THEN "m1" ELSE "m2"
StoredChat(i, model, at) == [id |-> i, name |-> "New chat", model |-> model, createdAt |-> at]
InitMemory ==
    /\ chats = <<>>
    /\ activeChat = NoChat
    /\ activeInList = FALSE
    /\ messages = <<>>
    /\ systemPrompt = NoMessage
    /\ ongoingAiMessages = <<>>
    /\ tasks = [t \in Tasks |-> IdleTask]
    /\ started = FALSE
    /\ nOps = 0
    /\ lastDone = IdleTask
    /\ exportData = <<>>
    /\ importJobs = <<>>
    /\ importData = <<>>
    /\ aborts = <<>>

\* a store of n chats without messages; each was made at time 1 or 2
InitChatsOnly ==
    /\ \E n \in 0..MaxInitChats :
        /\ \E f \in [1..n -> 1..2] :
              dbChats = [i \in 1..n |-> StoredChat(i, ModelOf(i), f[i])]
        /\ nextChatId = n + 1
    /\ dbMessages = <<>>
    /\ nextMessageId = 1
    /\ now = 2

\* a store of n chats without messages, made one after the other
InitChatsInOrder ==
    /\ \E n \in 0..MaxInitChats :
        /\ dbChats = [i \in 1..n |-> StoredChat(i, ModelOf(i), Min(i, 2))]
        /\ nextChatId = n + 1
    /\ dbMessages = <<>>
    /\ nextMessageId = 1
    /\ now = 2

\* a question and its answer, stored for chat 1 by an earlier session
StoredTalk ==
    (1 :> [id |-> 1, chatId |-> 1, role |-> "user", content |-> <<UserText(1)>>,
           createdAt |-> 1])
    @@ (2 :> [id |-> 2, chatId |-> 1, role |-> "assistant",
              content |-> <<Chunk(2, 1)>>, createdAt |-> 1])

\* a store of n chats, each made at time 1 or 2; chat 1 may hold messages
InitChatsAndTalk ==
    /\ \E n \in 0..MaxInitChats :
        /\ \E f \in [1..n -> 1..2] :
              dbChats = [i \in 1..n |-> StoredChat(i, ModelOf(i), f[i])]
        /\ nextChatId = n + 1
        /\ \/ dbMessages = <<>> /\ nextMessageId = 1
           \/ n > 0 /\ dbMessages = StoredTalk /\ nextMessageId = 3
    /\ now = 2

HistoryUnset == [set |-> FALSE, n |-> 0]
HistoryOf(n) == [set |-> TRUE, n |-> n]

InitLife ==
    /\ InitMemory
    /\ InitChatsOnly
    /\ currentModel = "m1"
    /\ historyMessageLength = HistoryUnset
    /\ systemMessage \in {<<>>, <<SystemText>>}

AllChatIds == 1..(nextChatId - 1)
UserTexts == {<<UserText(1)>>}

\* the continuations of initialize, switchChat, startNewChat
LifeSteps(t) ==
    \/ InitializeLoaded(t)
    \/ StartNewChatAdded(t)
    \/ StartNewChatPrompt(t)
    \/ AddSystemMessageAdded(t)
    \/ SwitchChatGot(t)
    \/ SwitchChatLoaded(t)
    \/ SwitchModelSaved(t)

\* the continuations of addUserMessage and regenerateResponse
StreamSteps(t) ==
    \/ AssistantSaved(t)
    \/ StreamChunk(t)
    \/ StreamPersisted(t)
    \/ StreamRefreshed(t)
    \/ StreamEnd(t)

NextLife ==
    \/ Initialize
    \/ \E t \in Tasks : LifeSteps(t)
    \/ Ready /\ StartNewChat
    \/ Ready /\ \E c \in AllChatIds : SwitchChat(c)
    \/ Ready /\ \E c \in AllChatIds : DeleteChat(c)
    \/ \E t \in Tasks : DeleteChatDeleted(t)
    \/ \E t \in Tasks : DeleteChatCleared(t)

InitStart ==
    /\ InitMemory
    /\ InitChatsAndTalk
    /\ currentModel \in Models
    /\ historyMessageLength = HistoryUnset
    /\ systemMessage \in {<<>>, <<SystemText>>}

NextStart ==
    \/ Initialize
    \/ \E t \in Tasks : LifeSteps(t)

\* the application is mounted: initialize runs over whatever the store holds
SpecStart == InitStart /\ [][NextStart]_vars

\* initialize, startNewChat, switchChat and deleteChat, interleaved
SpecLife == InitLife /\ [][NextLife]_vars

InitSend ==
    /\ InitMemory
    /\ InitChatsInOrder
    /\ currentModel = "m1"
    /\ historyMessageLength = HistoryOf(1)
    /\ systemMessage \in {<<>>, <<SystemText>>}

\* no addUserMessage or regenerateResponse is in progress
NoSend == \A t \in Tasks : tasks[t].op \notin {"addUserMessage", "regenerateResponse"}

NextSend ==
    \/ Initialize
    \/ \E t \in Tasks : LifeSteps(t)
    \/ NoSend /\ \E c \in UserTexts : AddUserMessage(c)
    \/ \E t \in Tasks : AddUserMessageSaved(t)
    \/ \E t \in Tasks : StreamSteps(t)
    \/ Ready /\ \E c \in AllChatIds : SwitchChat(c)

\* one addUserMessage at a time, from the moment the application is mounted,
\* while the user switches chats
SpecSend == InitSend /\ [][NextSend]_vars

\* a store of one chat without messages, or an empty store
InitOneChat ==
    /\ \/ dbChats = (1 :> StoredChat(1, ModelOf(1), 1)) /\ nextChatId = 2
       \/ dbChats = <<>> /\ nextChatId = 1
    /\ dbMessages = <<>>
    /\ nextMessageId = 1
    /\ now = 2

InitAbort ==
    /\ InitMemory
    /\ InitOneChat
    /\ currentModel = "m1"
    /\ historyMessageLength = HistoryOf(1)
    /\ systemMessage = <<SystemText>>

\* every addUserMessage or regenerateResponse in progress has been aborted
NoLiveSend ==
    \A t \in Tasks :
        tasks[t].op \in {"addUserMessage", "regenerateResponse"} => tasks[t].aborted

NextAbort ==
    \/ Initialize
    \/ \E t \in Tasks : LifeSteps(t)
    \/ Ready /\ NoLiveSend /\ \E c \in UserTexts : AddUserMessage(c)
    \/ \E t \in Tasks : AddUserMessageSaved(t)
    \/ \E t \in Tasks : StreamSteps(t)
    \/ \E t \in Tasks : StreamAborted(t)
    \/ Ready /\ Abort

\* addUserMessage and abort: a new message may be sent as soon as abort() was
\* called, while the aborted loop has not yet returned
SpecAbort == InitAbort /\ [][NextAbort]_vars

NextDelete ==
    \/ Initialize
    \/ \E t \in Tasks : LifeSteps(t)
    \/ Ready /\ \E c \in UserTexts : AddUserMessage(c)
    \/ \E t \in Tasks : AddUserMessageSaved(t)
    \/ \E t \in Tasks : StreamSteps(t)
    \/ Ready /\ \E c \in ChatIds : DeleteChat(c)
    \/ \E t \in Tasks : DeleteChatDeleted(t)
    \/ \E t \in Tasks : DeleteChatCleared(t)

\* addUserMessage and deleteChat of a listed chat, interleaved
SpecDelete == InitAbort /\ [][NextDelete]_vars

NoWipe == \A t \in Tasks : tasks[t].op # "wipeDatabase"

NextWipe ==
    \/ Initialize
    \/ \E t \in Tasks : LifeSteps(t)
    \/ Ready /\ \E c \in UserTexts : AddUserMessage(c)
    \/ \E t \in Tasks : AddUserMessageSaved(t)
    \/ \E t \in Tasks : StreamSteps(t)
    \/ Ready /\ NoWipe /\ WipeDatabase
    \/ \E t \in Tasks : WipeChatsCleared(t)
    \/ \E t \in Tasks : WipeMessagesCleared(t)

\* addUserMessage and wipeDatabase, interleaved
SpecWipe == InitAbort /\ [][NextWipe]_vars

InitRegen ==
    /\ InitMemory
    /\ InitOneChat
    /\ currentModel = "m1"
    /\ historyMessageLength \in {HistoryUnset} \cup {HistoryOf(n) : n \in 0..MaxHistory}
    /\ systemMessage \in {<<>>, <<SystemText>>}

NextRegen ==
    \/ Initialize
    \/ \E t \in Tasks : LifeSteps(t)
    \/ Ready /\ NoSend /\ \E c \in UserTexts : AddUserMessage(c)
    \/ \E t \in Tasks : AddUserMessageSaved(t)
    \/ \E t \in Tasks : StreamSteps(t)
    \/ Ready /\ NoSend /\ RegenerateResponse

\* addUserMessage and regenerateResponse, one at a time, under every history
\* length
SpecRegen == InitRegen /\ [][NextRegen]_vars

NextHistory ==
    \/ Initialize
    \/ \E t \in Tasks : LifeSteps(t)
    \/ Ready /\ NoSend /\ \E c \in UserTexts : AddUserMessage(c)
    \/ \E t \in Tasks : AddUserMessageSaved(t)
    \/ \E t \in Tasks : StreamSteps(t)

\* addUserMessage, one at a time, under every history length
SpecHistory == InitRegen /\ [][NextHistory]_vars

\* a store of n chats and k messages, each message of some chat and either a
\* question or an answer
InitChatsAndMessages ==
    /\ \E n \in 0..MaxInitChats :
        /\ \E f \in [1..n -> 1..2] :
              dbChats = [i \in 1..n |-> StoredChat(i, ModelOf(i), f[i])]
        /\ nextChatId = n + 1
        /\ \E k \in 0..MaxInitMessages :
            /\ nextMessageId = k + 1
            /\ \E g \in [1..k -> (1..n) \X {"user", "assistant"}] :
                  dbMessages = [i \in 1..k |->
                      [id |-> i, chatId |-> g[i][1], role |-> g[i][2],
                       content |-> IF g[i][2] = "user" THEN <<UserText(i)>>
                                   ELSE <<Chunk(i, 1)>>,
                       createdAt |-> 1]]
    /\ now = 2

InitPort ==
    /\ InitMemory
    /\ InitChatsAndMessages
    /\ currentModel = "m1"
    /\ historyMessageLength = HistoryUnset
    /\ systemMessage \in {<<>>, <<SystemText>>}

NextPort ==
    \/ Initialize
    \/ \E t \in Tasks : LifeSteps(t)
    \/ Ready /\ importData = <<>> /\ ExportChats
    \/ \E t \in Tasks : ExportLoaded(t)
    \/ \E t \in Tasks : ExportDone(t)
    \/ OpenEmptyStore
    \/ dbChats = <<>> /\ exportData # <<>> /\ ImportChats(exportData)
    \/ ImportChatAdded

\* exportChats on a populated store, then importChats of its result on an
\* empty one
SpecPort == InitPort /\ [][NextPort]_vars


\* ------------------------------------------------------------------ claims

\* C1: in every reachable state, a non-null active chat has its id in the
\* in-memory chat list.
C1_ActiveChatInList == activeChat # NoChat => activeChat.id \in ChatIds

\* C1, read at rest only: the same, in the states where no call is in progress.
C1_ActiveChatInListAtRest == Quiescent => C1_ActiveChatInList

Finished(op) == lastDone.pc = "done" /\ lastDone.op = op
StoredIds == DOMAIN dbChats

\* what initialize leaves on an empty store
C8_FreshChat ==
    /\ Cardinality(StoredIds) = 1
    /\ Len(chats) = 1
    /\ chats[1].id \in StoredIds
    /\ chats[1].name = "New chat"
    /\ dbChats[chats[1].id].name = "New chat"
    /\ activeChat.id = chats[1].id
    /\ IF systemMessage # <<>>
       THEN /\ Len(messages) = 1
            /\ messages[1].role = "system"
            /\ messages[1].chatId = activeChat.id
            /\ messages[1].id \in DOMAIN dbMessages
       ELSE messages = <<>>

\* what initialize leaves on a store that held the chats `loaded`
C8_LatestChat(loaded) ==
    /\ StoredIds = {loaded[i].id : i \in 1..Len(loaded)}
    /\ nextChatId = Len(loaded) + 1
    /\ activeChat.id \in StoredIds
    /\ \A c \in StoredIds : dbChats[c].createdAt <= activeChat.createdAt

\* C8: when initialize returns, an empty store holds exactly one chat, named
\* "New chat", which is the only chat of the list and the active chat, and the
\* message list holds one system message if a system prompt is configured and
\* nothing otherwise; a store that held chats holds the same chats, and the
\* active chat is one of the greatest createdAt.
C8_Initialize ==
    Finished("initialize") =>
        IF lastDone.snapChats = <<>> THEN C8_FreshChat
        ELSE C8_LatestChat(lastDone.snapChats)

\* initialize returned on an empty store with a system prompt configured
C8_Witness ==
    /\ Finished("initialize")
    /\ lastDone.snapChats = <<>>
    /\ Len(messages) = 1

\* initialize returned on a store of two chats, the older one stored last
C8_WitnessLatest ==
    /\ Finished("initialize")
    /\ Len(lastDone.snapChats) = 2
    /\ activeChat.id = 1
    /\ dbChats[2].createdAt < dbChats[1].createdAt

\* the calls of op that are past pcs, and the one that just returned
Records(op) ==
    {tasks[t] : t \in {u \in Tasks : tasks[u].op = op}}
        \cup (IF Finished(op) THEN {lastDone} ELSE {})

\* the two messages a call of addUserMessage has added, once both are added
C3_TwoMessages ==
    \A r \in Records("addUserMessage") :
        r.pc \in {"aiMessage_addMessage", "done"} \cup StreamPcs /\ r.callActive # 0 =>
            /\ Len(r.added) = 2
            /\ r.added[1].role = "user"
            /\ r.added[1].content = r.content
            /\ r.added[1].chatId = r.callActive
            /\ r.added[2].role = "assistant"
            /\ r.added[2].chatId = r.callActive
            /\ r.added[1].id < r.added[2].id
            /\ \A i \in 1..2 :
                  /\ r.added[i].id \in DOMAIN dbMessages
                  /\ dbMessages[r.added[i].id].chatId = r.callActive
                  /\ dbMessages[r.added[i].id].role = r.added[i].role
            /\ dbMessages[r.added[1].id].content = r.content

\* a call of addUserMessage made without an active chat changes nothing
C3_NoChatStep ==
    (activeChat = NoChat /\ \E c \in UserTexts : AddUserMessage(c)) =>
        /\ dbMessages' = dbMessages
        /\ nextMessageId' = nextMessageId
        /\ ongoingAiMessages' = ongoingAiMessages
        /\ messages' = messages
        /\ tasks' = tasks

\* C3: a call of addUserMessage that gets through its two store adds has added
\* exactly two messages, a user message with the given content and then an
\* assistant message, both filed under the chat that was active when the call
\* was made (whatever chat is active by then); a call made with no active chat
\* adds nothing, registers no in-flight message and opens no stream.
C3_AddUserMessage == [](C3_TwoMessages) /\ [][C3_NoChatStep]_vars

\* a call returned after its two adds, and the user had switched chats meanwhile
C3_Witness ==
    /\ Finished("addUserMessage")
    /\ Len(lastDone.added) = 2
    /\ activeChat.id # lastDone.callActive

\* a call made with no active chat returned
C3_WitnessNoChat == Finished("addUserMessage") /\ lastDone.callActive = 0

\* the chunks 1..n of the stream opened for message s
Chunks(s, n) == [i \in 1..n |-> Chunk(s, i)]

\* at the return of an addUserMessage whose stream ran to its end alone
C7_WholeText ==
    \A r \in Records("addUserMessage") :
        r.pc = "done" /\ r.callActive # 0 /\ ~r.aborted /\ ~r.shared =>
            /\ r.ai.id \in DOMAIN dbMessages
            /\ dbMessages[r.ai.id].content = Chunks(r.ai.id, r.k)
            /\ r.ai.id \notin InFlightIds

\* the stored content of a message changes only while the message is registered
C7_NoLateChunk ==
    \A m \in DOMAIN dbMessages :
        m \in DOMAIN dbMessages' /\ dbMessages'[m].content # dbMessages[m].content =>
            m \in InFlightIds

\* C7: when a stream started by addUserMessage ends without abort and without
\* another stream on its chat, the stored content of the assistant message the
\* call made is the concatenation of all parts delivered, in delivery order;
\* the end is seen once, after the last part: the message is no longer
\* registered and nothing is appended to an unregistered message.
C7_StreamToCompletion == [](C7_WholeText) /\ [][C7_NoLateChunk]_vars

\* a stream of two parts ended while another chat was active
C7_Witness ==
    /\ Finished("addUserMessage")
    /\ lastDone.k >= 2
    /\ activeChat.id # lastDone.chatId
    /\ dbMessages[lastDone.ai.id].content = <<Chunk(lastDone.ai.id, 1), Chunk(lastDone.ai.id, 2)>>

\* C6: a message that was registered when abort() ran has in the store, then
\* and ever after, exactly the parts 1..k its stream had delivered before, each
\* once and in order.
C6_AbortKeepsContent ==
    \A m \in DOMAIN aborts :
        /\ aborts[m].content = Chunks(m, aborts[m].k)
        /\ m \in DOMAIN dbMessages
        /\ dbMessages[m].content = aborts[m].content

\* abort() ran after the first part, its loop has returned, and a message sent
\* after the abort has run its own stream to the end
C6_Witness ==
    \E m \in DOMAIN aborts :
        /\ aborts[m].k = 1
        /\ dbMessages[m].content = <<Chunk(m, 1)>>
        /\ Quiescent
        /\ \E n \in DOMAIN dbMessages : n > m /\ dbMessages[n].role = "assistant"

\* C2: once every call has returned, no stored message belongs to a chat that
\* deleteChat has removed from the store.
C2_NoOrphans ==
    Quiescent => \A m \in DOMAIN dbMessages : dbMessages[m].chatId \in StoredIds

\* C4: a call of regenerateResponse on an active chat whose last message is
\* not an assistant message (or that has no message) returns at once: nothing
\* deleted, no assistant message added, no message registered, no stream.
C4_NoOpWithoutAnswer ==
    \A r \in Records("regenerateResponse") :
        r.callActive # 0 /\ r.msg.role # "assistant" =>
            /\ r.pc = "done"
            /\ r.deleted = <<>>
            /\ r.added = <<>>
            /\ r.k = 0

\* the bundles and the stored chats that carry a given chat: name, model,
\* createdAt and the role and content of the messages in order
Talk(list) == [i \in 1..Len(list) |-> <<list[i].role, list[i].content>>]
BundleSays(b) == <<b.name, b.model, b.createdAt, Talk(b.messages)>>
StoredSays(c) == <<dbChats[c].name, dbChats[c].model, dbChats[c].createdAt,
                   Talk(GetMessages(c))>>
RoundTrip(data) ==
    /\ Cardinality(StoredIds) = Len(data)
    /\ \A i \in 1..Len(data) :
          Cardinality({c \in StoredIds : StoredSays(c) = BundleSays(data[i])})
              = Cardinality({j \in 1..Len(data) : BundleSays(data[j]) = BundleSays(data[i])})

\* C5: once importChats(exportChats()) has returned on an empty store, the
\* store holds as many chats as were exported and, for each exported chat, a
\* chat of the same name, model and createdAt with the same messages (role and
\* content) in the same order.
C5_RoundTripAtReturn == Finished("importChats") => RoundTrip(importData)

\* C5, read once every insert importChats started has been made
C5_RoundTripWhenSettled ==
    importData # <<>> /\ importJobs = <<>> => RoundTrip(importData)

\* C9: when wipeDatabase returns, the store holds exactly one chat, made by
\* this call and active, no chat and no message from before the call, and no
\* message is registered as in flight.
C9_WipeLeavesOneChat ==
    Finished("wipeDatabase") =>
        /\ Cardinality(StoredIds) = 1
        /\ activeChat.id \in StoredIds
        /\ \A c \in StoredIds : c >= lastDone.target
        /\ \A m \in DOMAIN dbMessages : m >= lastDone.firstMessageId
        /\ ongoingAiMessages = <<>>

\* the history of a request without the system prompt put in front of it
Window(history) == IF systemPrompt # NoMessage THEN Tail(history) ELSE history

\* C10: the history passed to ollama.chat is the system prompt, when one was
\* captured, followed by a window of at most N messages, N the configured
\* history length; the window is empty when N is 0 or unset.
C10_BoundedHistory ==
    \A t \in Tasks :
        tasks[t].pc = "stream" /\ tasks[t].k = 0 /\ ~tasks[t].aborted =>
            /\ Len(Window(tasks[t].history)) <= HistoryLength
            /\ Len(tasks[t].history) - Len(Window(tasks[t].history)) <= 1

NextFail ==
    \/ Initialize
    \/ \E t \in Tasks : LifeSteps(t)
    \/ Ready /\ NoSend /\ \E c \in UserTexts : AddUserMessage(c)
    \/ \E t \in Tasks : AddUserMessageSaved(t)
    \/ \E t \in Tasks : StreamSteps(t)
    \/ \E t \in Tasks : StreamFailed(t)

\* addUserMessage, one at a time, over a backend whose streams may fail
SpecFail == InitAbort /\ [][NextFail]_vars

SendOps == {"addUserMessage", "regenerateResponse"}

\* C11: a chat id is in the in-flight map only while a stream of that chat is
\* open: once the stream has ended, by completion or by an error that is not
\* an abort, the entry of its chat is gone.
C11_EntryOnlyWhileStreaming ==
    \A c \in DOMAIN ongoingAiMessages :
        \E t \in Tasks : tasks[t].op \in SendOps /\ Streaming(t) /\ tasks[t].chatId = c

NextTwice ==
    \/ Initialize
    \/ \E t \in Tasks : LifeSteps(t)
    \/ Ready /\ \E c \in UserTexts : AddUserMessage(c)
    \/ \E t \in Tasks : AddUserMessageSaved(t)
    \/ \E t \in Tasks : StreamSteps(t)
    \/ Ready /\ RegenerateResponse

\* addUserMessage and regenerateResponse called while an earlier call is still
\* in progress
SpecTwice == InitAbort /\ [][NextTwice]_vars

\* C12: no two streaming loops run for the same chat at once.
C12_OneStreamPerChat ==
    \A t, u \in Tasks :
        t # u /\ Streaming(t) /\ Streaming(u) => tasks[t].chatId # tasks[u].chatId

InitSwitch ==
    /\ InitMemory
    /\ InitChatsAndMessages
    /\ currentModel = "m1"
    /\ historyMessageLength = HistoryUnset
    /\ systemMessage = <<SystemText>>

\* the ids of the stored chats and one id that no chat has
AnyChatIds == 1..nextChatId

NextSwitch ==
    \/ Initialize
    \/ \E t \in Tasks : LifeSteps(t)
    \/ Quiescent /\ \E c \in AnyChatIds : SwitchChat(c)

\* switchChat called when no other call is in progress
SpecSwitch == InitSwitch /\ [][NextSwitch]_vars

\* the stored messages of chat c in key order
StoredTalkOf(c) ==
    LET ids == SetToSeq({m \in DOMAIN dbMessages : dbMessages[m].chatId = c})
    IN [i \in 1..Len(ids) |-> dbMessages[ids[i]]]

\* at the return of switchChat(X), X stored
C13_Switched ==
    Finished("switchChat") /\ lastDone.target \in StoredIds =>
        /\ activeChat = dbChats[lastDone.target]
        /\ [i \in 1..Len(messages) |-> Plain(messages[i])] = StoredTalkOf(lastDone.target)
        /\ currentModel = dbChats[lastDone.target].model

\* a step of switchChat(X), X not stored
C13_AbsentStep ==
    \A t \in Tasks :
        \/ tasks'[t].op = "switchChat" /\ tasks'[t].target \notin StoredIds
        \/ tasks[t].op = "switchChat" /\ tasks[t].target \notin StoredIds
        => UNCHANGED <<activeChat, messages, currentModel>>

\* C13: when switchChat(X) returns, nothing else having run meanwhile, and X
\* is stored, the active chat is X as stored, the message list is the stored
\* messages of X and the current model is X's model; when X is not stored, no
\* step of the call changes the active chat, the message list or the current
\* model.
C13_SwitchChat == [](C13_Switched) /\ [][C13_AbsentStep]_vars

\* switchChat returned on another chat, of another model, that has messages
C13_Witness ==
    /\ Finished("switchChat")
    /\ lastDone.target \in StoredIds
    /\ lastDone.callActive \in StoredIds \ {lastDone.target}
    /\ dbChats[lastDone.callActive].model # currentModel
    /\ messages # <<>>

\* switchChat returned for an id that no chat has
C13_WitnessAbsent ==
    /\ Finished("switchChat")
    /\ lastDone.target \notin StoredIds
    /\ activeChat # NoChat

NextRemove ==
    \/ Initialize
    \/ \E t \in Tasks : LifeSteps(t)
    \/ Quiescent /\ StartNewChat
    \/ Quiescent /\ \E c \in AnyChatIds : SwitchChat(c)
    \/ Quiescent /\ \E c \in AnyChatIds : DeleteChat(c)
    \/ \E t \in Tasks : DeleteChatDeleted(t)
    \/ \E t \in Tasks : DeleteChatCleared(t)

\* startNewChat, switchChat and deleteChat, called when no other call is in
\* progress
SpecRemove == InitSwitch /\ [][NextRemove]_vars

\* the active chat was made by the call that just returned
MadeByLastCall ==
    /\ lastDone.target = 0
    /\ activeChat.id = nextChatId - 1
    /\ activeChat.createdAt = now

\* at the return of deleteChat(X), X having been the active chat
C14_ActiveDeleted ==
    Finished("deleteChat") /\ lastDone.callActive = lastDone.arg =>
        /\ activeChat.id # lastDone.arg
        /\ activeChat.id \in StoredIds
        /\ activeChat = dbChats[activeChat.id]
        /\ IF MadeByLastCall
           THEN /\ StoredIds = {activeChat.id}
                /\ activeChat.name = "New chat"
           ELSE \A c \in StoredIds : dbChats[c].createdAt <= activeChat.createdAt

\* a step of deleteChat(X), X not being the active chat
C14_OtherStep ==
    \A t \in Tasks :
        \/ tasks'[t].op = "deleteChat" /\ tasks'[t].callActive # tasks'[t].arg
        \/ tasks[t].op = "deleteChat" /\ tasks[t].callActive # tasks[t].arg
        => UNCHANGED <<activeChat, messages>>

\* C14: when deleteChat(X) returns and X was the active chat, the active chat
\* is a stored chat other than X: the one of greatest createdAt among those
\* that remain or, when none remains, a chat named "New chat" that the call
\* made; when X was not the active chat, no step of the call changes the
\* active chat or the message list.
C14_DeleteChat == [](C14_ActiveDeleted) /\ [][C14_OtherStep]_vars

\* the active chat was deleted and two chats remained
C14_Witness ==
    /\ Finished("deleteChat")
    /\ lastDone.callActive = lastDone.arg
    /\ ~MadeByLastCall
    /\ Cardinality(StoredIds) >= 2
    /\ \E c \in StoredIds : dbChats[c].createdAt < activeChat.createdAt

\* the only chat was deleted
C14_WitnessNew ==
    Finished("deleteChat") /\ lastDone.callActive = lastDone.arg /\ MadeByLastCall

\* a stored chat other than the active one was deleted
C14_WitnessOther ==
    /\ Finished("deleteChat")
    /\ lastDone.callActive # lastDone.arg
    /\ lastDone.arg < nextChatId
    /\ activeChat # NoChat
    /\ messages # <<>>

NewNames == {"renamed"}

NextRename ==
    \/ Initialize
    \/ \E t \in Tasks : LifeSteps(t)
    \/ Quiescent /\ StartNewChat
    \/ Quiescent /\ \E n \in NewNames : RenameChat(n)
    \/ \E t \in Tasks : RenameChatSaved(t)
    \/ \E t \in Tasks : RenameChatLoaded(t)

\* renameChat over a store that may reject a request, called when no other
\* call is in progress
SpecRename == InitLife /\ [][NextRename]_vars

\* C15: a call in which a store request was rejected does not reject its own
\* promise, and leaves the active chat as it was before the call (here: not
\* the renamed chat the call built).
C15_StoreFailureCaught ==
    \A r \in Records("renameChat") :
        r.failed => ~r.threw /\ activeChat # r.chat

NextModel ==
    \/ Initialize
    \/ \E t \in Tasks : LifeSteps(t)
    \/ Ready /\ NoSend /\ \E c \in UserTexts : AddUserMessage(c)
    \/ \E t \in Tasks : AddUserMessageSaved(t)
    \/ \E t \in Tasks : StreamSteps(t)
    \/ \E m \in Models : SwitchModel(m)

\* switchModel called at any moment, also while initialize or a stream is in
\* progress
SpecModel == InitAbort /\ [][NextModel]_vars

\* the step in which switchModel is called
C16_CallStep ==
    \A t \in Tasks :
        tasks'[t].op = "switchModel" /\ tasks[t].op # "switchModel" =>
            /\ currentModel' = tasks'[t].model
            /\ activeChat.id \in StoredIds
            /\ dbChats'[activeChat.id].model = tasks'[t].model
            /\ activeChat' = activeChat

\* the step in which switchModel is called without an active chat
C16_CallStepNoChat ==
    nOps' = nOps + 1 /\ lastDone'.op = "switchModel" =>
        /\ lastDone'.callActive = 0
        /\ currentModel' = lastDone'.model
        /\ UNCHANGED <<dbChats, dbMessages, ongoingAiMessages, messages, tasks>>

\* every step of a switchModel call
C16_AnyStep ==
    \A t \in Tasks :
        tasks'[t].op = "switchModel" \/ tasks[t].op = "switchModel" =>
            \/ tasks'[t] = tasks[t]
            \/ /\ UNCHANGED <<ongoingAiMessages, dbMessages, messages>>
               /\ \A u \in Tasks \ {t} : tasks'[u] = tasks[u]

\* C16: the call of switchModel(m) sets the current model to m and, a chat
\* being active, stores m as that chat's model; no step of the call changes
\* the in-flight map, a stored or listed message, or another call (no stream
\* is aborted).
C16_SwitchModel == [][C16_CallStep /\ C16_CallStepNoChat /\ C16_AnyStep]_vars

\* switchModel to another model is in progress while a stream has delivered
\* a part
C16_Witness ==
    \E t, u \in Tasks :
        /\ tasks[t].op = "switchModel"
        /\ tasks[t].pc = "switchModel_updateChat"
        /\ activeChat.model # tasks[t].model
        /\ dbChats[activeChat.id].model = tasks[t].model
        /\ Streaming(u)
        /\ tasks[u].k >= 1
        /\ tasks[u].chatId \in DOMAIN ongoingAiMessages
        /\ ongoingAiMessages[tasks[u].chatId].content # <<>>

NextPrompt ==
    \/ Initialize
    \/ \E t \in Tasks : LifeSteps(t)
    \/ Ready /\ StartNewChat
    \/ Ready /\ NoSend /\ \E c \in UserTexts : AddUserMessage(c)
    \/ \E t \in Tasks : AddUserMessageSaved(t)
    \/ \E t \in Tasks : StreamSteps(t)

\* startNewChat and addUserMessage, interleaved, a system prompt being
\* configured
SpecPrompt == InitAbort /\ [][NextPrompt]_vars

\* the chats that startNewChat has made: the chats of the initial store have
\* the dates 1 and 2
MadeChats == {c \in StoredIds : dbChats[c].createdAt > 2}

\* the key of the first stored message of chat c
FirstMessageOf(c) ==
    CHOOSE m \in MessageIdsOf(c) : \A n \in MessageIdsOf(c) : m <= n

\* C17: a system prompt being configured, the first stored message of every
\* chat that startNewChat made is a system message.
C17_SystemMessageFirst ==
    systemMessage # <<>> =>
        \A c \in MadeChats :
            MessageIdsOf(c) # {} => dbMessages[FirstMessageOf(c)].role = "system"

\* C18: in every step that adds messages to the store, the chat of each added
\* message is in the store.
C18_ChatExistsAtAdd ==
    [][\A m \in DOMAIN dbMessages' \ DOMAIN dbMessages :
          dbMessages'[m].chatId \in DOMAIN dbChats]_vars

\* C19: a streaming loop of chat X sets the message list to the messages it
\* read only in a step that starts with X as the active chat.
C19_RefreshOnlyWhenActive ==
    [][\A t \in Tasks :
          tasks[t].pc = "stream_getMessages" /\ tasks'[t].pc # "stream_getMessages" =>
              activeChat.id = tasks[t].chatId]_vars

InitAway ==
    /\ InitMemory
    /\ InitChatsInOrder
    /\ currentModel = "m1"
    /\ historyMessageLength = HistoryOf(1)
    /\ systemMessage = <<SystemText>>

NextAway ==
    \/ Initialize
    \/ \E t \in Tasks : LifeSteps(t)
    \/ Ready /\ NoSend /\ \E c \in UserTexts : AddUserMessage(c)
    \/ \E t \in Tasks : AddUserMessageSaved(t)
    \/ \E t \in Tasks : StreamSteps(t)
    \/ Ready /\ \E c \in AllChatIds : SwitchChat(c)
    \/ Ready /\ StartNewChat

\* one addUserMessage while the user switches chats and starts new ones
SpecAway == InitAway /\ [][NextAway]_vars

\* C20: while and after a stream of chat X runs with another chat active (no
\* abort, no deleteChat, no wipeDatabase), the stored content of the stream's
\* assistant message is the concatenation of the parts delivered so far, and
\* of all of them at the return.
C20_PersistsWhileAway ==
    \A r \in Records("addUserMessage") :
        /\ r.pc \in StreamPcs \cup {"done"}
        /\ r.ai # NoMessage
        /\ activeChat.id # r.chatId
        => /\ r.ai.id \in DOMAIN dbMessages
           /\ dbMessages[r.ai.id].content = Chunks(r.ai.id, r.k)

\* a stream ended with all its parts stored while a chat that startNewChat
\* made meanwhile is active and the list shows none of the stream's messages
C20_Witness ==
    /\ Finished("addUserMessage")
    /\ lastDone.k = MaxChunks
    /\ activeChat.id \in MadeChats
    /\ activeChat.id > lastDone.chatId
    /\ \A i \in 1..Len(messages) : messages[i].chatId # lastDone.chatId
    /\ dbMessages[lastDone.ai.id].content = Chunks(lastDone.ai.id, MaxChunks)

\* a stream ended with all its parts stored while a chat the user switched to
\* is active
C20_WitnessSwitch ==
    /\ Finished("addUserMessage")
    /\ lastDone.k = MaxChunks
    /\ activeChat.id \notin MadeChats
    /\ activeChat.id # lastDone.chatId
    /\ dbMessages[lastDone.ai.id].content = Chunks(lastDone.ai.id, MaxChunks)

\* C21: the system message at the head of the history of a stream opened for
\* chat X is a message of chat X.
C21_OwnSystemPrompt ==
    \A t \in Tasks :
        /\ tasks[t].pc = "stream"
        /\ tasks[t].history # <<>>
        /\ tasks[t].history[1].role = "system"
        => tasks[t].history[1].chatId = tasks[t].chatId

\* the keys of the stored user messages of chat c
UserMessageIdsOf(c) ==
    {m \in DOMAIN dbMessages : dbMessages[m].chatId = c /\ dbMessages[m].role = "user"}

\* the step in which regenerateResponse is called on a list that ends with an
\* assistant message
C22_CallStep ==
    \A t \in Tasks :
        /\ tasks'[t].op = "regenerateResponse"
        /\ tasks[t].op # "regenerateResponse"
        /\ messages # <<>>
        /\ messages[Len(messages)].role = "assistant"
        => LET last == messages[Len(messages)]
               c == activeChat.id
               new == tasks'[t].ai
           IN /\ last.id \notin DOMAIN dbMessages'
              /\ messages' = SubSeq(messages, 1, Len(messages) - 1)
              /\ DOMAIN dbMessages' \ DOMAIN dbMessages = {new.id}
              /\ DOMAIN dbMessages \ DOMAIN dbMessages' = {last.id}
              /\ dbMessages'[new.id].role = "assistant"
              /\ dbMessages'[new.id].content = <<>>
              /\ dbMessages'[new.id].chatId = c
              /\ Cardinality({m \in DOMAIN dbMessages' : dbMessages'[m].chatId = c})
                    = Cardinality({m \in DOMAIN dbMessages : dbMessages[m].chatId = c})
              /\ \A m \in DOMAIN dbMessages \ {last.id} : dbMessages'[m] = dbMessages[m]

\* a call of regenerateResponse that found an assistant message last, from
\* its second block on
C22_OneNewAnswer ==
    \A r \in Records("regenerateResponse") :
        r.msg.role = "assistant" /\ r.callActive # 0 =>
            /\ r.deleted = <<r.msg.id>>
            /\ r.msg.id \notin DOMAIN dbMessages
            /\ Len(r.added) = 1
            /\ r.added[1].role = "assistant"
            /\ r.pc # "aiMessage_addMessage" /\ ~r.aborted =>
                  /\ Cardinality({i \in 1..Len(messages) : messages[i].id = r.ai.id}) = 1
                  /\ \A i \in 1..Len(messages) : messages[i].id # r.msg.id

\* C22: regenerateResponse called on a message list that ends with an
\* assistant message deletes that message from the store and takes it from
\* the list, and adds one empty assistant message of the active chat and
\* nothing else: the chat holds as many messages as before and the other
\* messages are untouched; the new message is pushed to the list once.
C22_Regenerate == [](C22_OneNewAnswer) /\ [][C22_CallStep]_vars

\* a regenerated answer has received its parts, the question is the one asked
C22_Witness ==
    /\ Finished("regenerateResponse")
    /\ lastDone.msg.role = "assistant"
    /\ lastDone.msg.content # <<>>
    /\ lastDone.k = MaxChunks
    /\ dbMessages[lastDone.ai.id].content = Chunks(lastDone.ai.id, MaxChunks)
    /\ Cardinality(UserMessageIdsOf(lastDone.chatId)) = 1
    /\ \E i \in 1..Len(messages) : messages[i].role = "user"

\* C23: once every call has returned, every message of the message list has
\* the chatId of the active chat.
C23_ListOfActiveChat ==
    Quiescent => \A i \in 1..Len(messages) : messages[i].chatId = activeChat.id

\* C24: the stored content of an assistant message holds parts of the stream
\* opened for that message only.
C24_OwnChunksOnly ==
    \A m \in DOMAIN dbMessages :
        \A i \in 1..Len(dbMessages[m].content) :
            dbMessages[m].role = "assistant" => dbMessages[m].content[i][1] = m

\* C25: a stream that was not aborted keeps its in-flight entry while it is
\* open, whatever loop ends meanwhile.
C25_EntryStays ==
    \A t \in Tasks :
        Streaming(t) /\ ~tasks[t].aborted =>
            /\ tasks[t].chatId \in DOMAIN ongoingAiMessages
            /\ ongoingAiMessages[tasks[t].chatId].id = tasks[t].ai.id

====
